---- MODULE Spec2Model ----
(***************************************************************************)
(* A model of the students REST service: process startup (environment,    *)
(* MongoDB connect and ping, listener), the CORS middleware configured on  *)
(* the router, and the two handlers GET /students and POST /students.      *)
(*                                                                         *)
(* The repository holds two variants of the program, src/main.go and       *)
(* src/unnamed/part_000.  They share the handlers and differ in the        *)
(* handling of a missing .env file, the CORS allow-list and the listen     *)
(* port.  The variable `variant` says which of the two is running.         *)
(***************************************************************************)
EXTENDS Integers, Sequences, FiniteSets, Bags, TLC

VARIABLES
    variant,     \* "main" (src/main.go) or "part_000" (src/unnamed/part_000)
    pc,          \* position of main(): load, geturi, connect, ping, run, listening, exited
    env,         \* the process environment: PORT and MONGODB_URI
    dotenv,      \* the .env file godotenv.Load() will look for
    logs,        \* the set of messages main() has logged
    uri,         \* the local `uri` of main()
    connected,   \* mongo.Connect returned a client
    pinged,      \* client.Ping returned nil
    listenAddr,  \* the address r.Run listens on, "" while no listener is open
    collection,  \* the documents of students.theirdata
    nextId,      \* the next identifier the insert assigns
    handlers,    \* the bag of handler invocations in flight
    last,        \* the HTTP exchange the latest step completed, NoExchange if none
    acked        \* the documents whose insert was answered 201

vars == <<variant, pc, env, dotenv, logs, uri, connected, pinged, listenAddr,
          collection, nextId, handlers, last, acked>>

startupVars == <<variant, pc, env, dotenv, logs, uri, connected, pinged, listenAddr>>

-----------------------------------------------------------------------------
(* Bounds *)

\* The number of handler invocations that may be in flight together.
MaxConc == 2

\* The number of documents the collection may come to hold.
MaxDocs == 2

-----------------------------------------------------------------------------
(* The environment *)

Unset == [set |-> FALSE, val |-> ""]
Val(s) == [set |-> TRUE, val |-> s]

\* os.Getenv: the value of the variable, "" when it is not set.
Getenv(e, k) == IF e[k].set THEN e[k].val ELSE ""

PortValues == {Unset, Val(""), Val("3000")}
UriValues == {Unset, Val(""), Val("mongodb://db")}

Envs == [PORT : PortValues, MONGODB_URI : UriValues]

\* The .env file: missing or unparsable (err), or a set of assignments.
NoFile == [err |-> TRUE, PORT |-> Unset, MONGODB_URI |-> Unset]
EmptyFile == [err |-> FALSE, PORT |-> Unset, MONGODB_URI |-> Unset]
Files ==
    { NoFile,
      EmptyFile,
      [err |-> FALSE, PORT |-> Val("5000"), MONGODB_URI |-> Val("mongodb://local")] }

\* godotenv.Load: a variable of the file is set unless the process
\* environment already holds it.
LoadInto(e, f) ==
    [k \in DOMAIN e |-> IF e[k].set THEN e[k] ELSE f[k]]

Variants == {"main", "part_000"}

-----------------------------------------------------------------------------
(* JSON request bodies and the binding into Student *)

\* A member of a JSON object: absent, a string, or a number.  A number has
\* an integer part n, may have a fraction (1.5) and may be too large for
\* Go's 64-bit int (huge).
JAbsent == [k |-> "absent", s |-> "", n |-> 0, frac |-> FALSE, huge |-> FALSE]
JStr(t) == [k |-> "string", s |-> t, n |-> 0, frac |-> FALSE, huge |-> FALSE]
JInt(i) == [k |-> "number", s |-> "", n |-> i, frac |-> FALSE, huge |-> FALSE]
JFrac(i) == [k |-> "number", s |-> "", n |-> i, frac |-> TRUE, huge |-> FALSE]
JHuge == [k |-> "number", s |-> "", n |-> 0, frac |-> FALSE, huge |-> TRUE]

\* A request body: wf says whether it is well-formed JSON; the members
\* name and age, a member grade the Student struct does not declare, and a
\* client-chosen _id.
Body(wf, name, age, grade, id) ==
    [wf |-> wf, name |-> name, age |-> age, grade |-> grade, id |-> id]

NoBody == Body(TRUE, JAbsent, JAbsent, JAbsent, JAbsent)

BodyAda == Body(TRUE, JStr("Ada"), JInt(30), JAbsent, JAbsent)
BodyNoName == Body(TRUE, JAbsent, JInt(30), JAbsent, JAbsent)
BodyNoAge == Body(TRUE, JStr("Ada"), JAbsent, JAbsent, JAbsent)
BodyExtra == Body(TRUE, JStr("Bob"), JInt(7), JStr("A"), JStr("client-id"))
BodyStrAge == Body(TRUE, JStr("Ada"), JStr("thirty"), JAbsent, JAbsent)
BodyFracAge == Body(TRUE, JStr("Ada"), JFrac(1), JAbsent, JAbsent)
BodyHugeAge == Body(TRUE, JStr("Ada"), JHuge, JAbsent, JAbsent)
BodyNumName == Body(TRUE, JInt(5), JInt(30), JAbsent, JAbsent)
BodyBroken == Body(FALSE, JAbsent, JAbsent, JAbsent, JAbsent)

Bodies ==
    { BodyAda, BodyNoName, BodyNoAge, BodyExtra, BodyStrAge, BodyFracAge,
      BodyHugeAge, BodyNumName, BodyBroken }

\* type Student struct { Name string `json:"name"`; Age int `json:"age"` }
ZeroStudent == [Name |-> "", Age |-> 0]

\* The error encoding/json reports for member name, "" for none: only a
\* JSON string goes into a Go string; an absent member is left alone.
NameError(v) ==
    IF v.k = "number"
    THEN "json: cannot unmarshal number into Go struct field Student.name of type string"
    ELSE ""

\* The error encoding/json reports for member age, "" for none: only a
\* number without fraction that fits the int goes into a Go int.
AgeError(v) ==
    IF v.k = "string"
    THEN "json: cannot unmarshal string into Go struct field Student.age of type int"
    ELSE IF v.k = "number" /\ (v.frac \/ v.huge)
    THEN "json: cannot unmarshal number into Go struct field Student.age of type int"
    ELSE ""

\* c.ShouldBindJSON(&newStudent): the error text ("" for nil) and the
\* struct.  The struct carries no binding:"required" tag, so a member the
\* body lacks keeps its zero value; members the struct does not declare
\* are skipped.
ShouldBindJSON(b) ==
    IF ~b.wf THEN [err |-> "unexpected EOF", student |-> ZeroStudent]
    ELSE IF NameError(b.name) # "" THEN [err |-> NameError(b.name), student |-> ZeroStudent]
    ELSE IF AgeError(b.age) # "" THEN [err |-> AgeError(b.age), student |-> ZeroStudent]
    ELSE [err |-> "",
          student |-> [Name |-> IF b.name.k = "string" THEN b.name.s ELSE "",
                       Age |-> IF b.age.k = "number" THEN b.age.n ELSE 0]]

\* A Student whose age is tagged omitempty.
DocumentOmitEmpty(st, id) ==
    IF st.Age = 0 THEN [_id |-> id, name |-> st.Name]
    ELSE [_id |-> id, name |-> st.Name, age |-> st.Age]

\* The document InsertOne writes for a Student: the two bson-tagged fields
\* and the _id the driver generates.
Document(st, id) == [_id |-> id, name |-> st.Name, age |-> st.Age]

-----------------------------------------------------------------------------
(* Requests, the CORS middleware and routing *)

Host == "api.example"

LocalOrigin == "http://localhost:5173"
RenderOrigin == "https://your-render-service.onrender.com"
OtherOrigin == "http://evil.example"
SameOrigin == "http://" \o Host

\* cors.Config.AllowOrigins of the variant.
AllowOrigins(v) ==
    IF v = "main" THEN {LocalOrigin} ELSE {LocalOrigin, RenderOrigin}

Request(method, path, origin, body) ==
    [method |-> method, path |-> path, origin |-> origin, body |-> body]

NoRequest == Request("", "", "", NoBody)

\* A middleware that gives every Origin the headers.
CorsPermissive(v, req) ==
    IF req.origin = "" \/ req.origin = SameOrigin
    THEN [abort |-> FALSE, status |-> 0, acao |-> "", acac |-> FALSE]
    ELSE [abort |-> req.method = "OPTIONS",
          status |-> IF req.method = "OPTIONS" THEN 204 ELSE 0,
          acao |-> req.origin, acac |-> TRUE]

\* The cors middleware (AllowCredentials: true, no wildcard): a request
\* without Origin, or whose Origin is the request's own host, passes
\* untouched; an Origin outside AllowOrigins is aborted with 403; an
\* allowed Origin gets the headers, and a preflight is answered 204.
Cors(v, req) ==
    IF req.origin = "" \/ req.origin = SameOrigin
    THEN [abort |-> FALSE, status |-> 0, acao |-> "", acac |-> FALSE]
    ELSE IF req.origin \notin AllowOrigins(v)
    THEN [abort |-> TRUE, status |-> 403, acao |-> "", acac |-> FALSE]
    ELSE [abort |-> req.method = "OPTIONS",
          status |-> IF req.method = "OPTIONS" THEN 204 ELSE 0,
          acao |-> req.origin, acac |-> TRUE]

\* The routes main() registers: r.GET("/students"), r.POST("/students").
Route(req) ==
    IF req.path = "/students" /\ req.method = "GET" THEN "list"
    ELSE IF req.path = "/students" /\ req.method = "POST" THEN "create"
    ELSE "none"

-----------------------------------------------------------------------------
(* Handler invocations and completed exchanges *)

NoCalls == [find |-> 0, all |-> 0, insert |-> 0]

\* A handler invocation in flight: the request, the headers the cors
\* middleware has set, the bound newStudent, the documents of the open
\* cursor, the database calls made so far and, for a list request, the
\* documents the collection held when the request arrived.
Handler(at, req, co, st, cur, calls, stored) ==
    [pc |-> at, req |-> req, acao |-> co.acao, acac |-> co.acac, student |-> st,
     cursor |-> cur, calls |-> calls, stored |-> stored]

NoCors == [abort |-> FALSE, status |-> 0, acao |-> "", acac |-> FALSE]

Idle == Handler("idle", NoRequest, NoCors, ZeroStudent, {}, NoCalls, {})

\* The JSON body of a response.
NoContent == [kind |-> "none", error |-> "", message |-> "", insertedID |-> 0, docs |-> {}]
ErrorBody(text) == [NoContent EXCEPT !.kind = "error", !.error = text]
CreatedBody(id) ==
    [NoContent EXCEPT !.kind = "created", !.message = "Student added successfully!",
                      !.insertedID = id]

\* var results []bson.M followed by cursor.All(ctx, &results): the slice
\* starts nil and gets one element per document of the cursor, so it is
\* still nil when the cursor held none.
CursorAll(docs) == [nil |-> docs = {}, docs |-> docs]

\* c.JSON(http.StatusOK, results): a nil slice is encoded as null, any
\* other slice as an array.
ResultsJSON(results) ==
    IF results.nil THEN [NoContent EXCEPT !.kind = "null"]
    ELSE [NoContent EXCEPT !.kind = "array", !.docs = results.docs]

\* A completed exchange: the request, the response (status, CORS headers,
\* body, number of times the handler wrote a response) and the handler's
\* bookkeeping.
Exchange(req, status, acao, acac, body, writes, calls, stored) ==
    [req |-> req, status |-> status, acao |-> acao, acac |-> acac, body |-> body,
     writes |-> writes, calls |-> calls, stored |-> stored]

NoExchange == Exchange(NoRequest, 0, "", FALSE, NoContent, 0, NoCalls, {})

\* The response a handler h writes with c.JSON(status, body) before it
\* returns.
Respond(h, status, body) ==
    Exchange(h.req, status, h.acao, h.acac, body, 1, h.calls, h.stored)

\* The number of inserts the handlers in flight may still make.
PendingInserts ==
    BagCardinality([h \in {x \in BagToSet(handlers) : x.pc = "insert"} |-> handlers[h]])

\* The first part of the POST handler: bind the body; a binding error is
\* answered 400 with the error text, otherwise the insert is next.
CreateBind(h) ==
    LET b == ShouldBindJSON(h.req.body) IN
    IF b.err # ""
    THEN [h |-> Idle, out |-> Respond(h, 400, ErrorBody(b.err))]
    ELSE [h |-> [h EXCEPT !.pc = "insert", !.student = b.student], out |-> NoExchange]

\* A request arrives at the router: the cors middleware runs first, then
\* the route's handler starts; a request no route matches is answered 404.
Dispatch(v, req, stored) ==
    LET co == Cors(v, req)
        h == Handler("idle", req, co, ZeroStudent, {}, NoCalls, {})
    IN  IF co.abort
        THEN [h |-> Idle, out |-> Respond(h, co.status, NoContent)]
        ELSE IF Route(req) = "list"
        THEN [h |-> [h EXCEPT !.pc = "find", !.stored = stored], out |-> NoExchange]
        ELSE IF Route(req) = "create"
        THEN CreateBind(h)
        ELSE [h |-> Idle, out |-> Respond(h, 404, NoContent)]

\* The handlers in flight once h has made a step that leaves it as r.h: a
\* handler that returned is in flight no more.
Step(h, r) ==
    (handlers (-) SetToBag({h}))
        (+) (IF r.h.pc = "idle" THEN EmptyBag ELSE SetToBag({r.h}))

Receive(req) ==
    /\ pc = "listening"
    /\ BagCardinality(handlers) < MaxConc
    /\ LET r == Dispatch(variant, req, collection) IN
          /\ r.h.pc = "insert" => Cardinality(collection) + PendingInserts < MaxDocs
          /\ handlers' = Step(Idle, r)
          /\ last' = r.out
    /\ UNCHANGED <<startupVars, collection, nextId, acked>>

\* collection.Find(ctx, bson.D{}) failed: 500, and the handler returns.
FindFailed(h) ==
    [h |-> Idle, out |-> Respond(h, 500, ErrorBody("Failed to fetch documents"))]

\* A find that is limited to the first document.
FindDoneLimited(h, docs) ==
    [h |-> [h EXCEPT !.pc = "all", !.cursor = {d \in docs : d._id = 1}],
     out |-> NoExchange]

\* collection.Find(ctx, bson.D{}) returned a cursor over these documents.
FindDone(h, docs) ==
    [h |-> [h EXCEPT !.pc = "all", !.cursor = docs], out |-> NoExchange]

\* collection.Find(ctx, bson.D{}): the cursor over every document.
GetFind(h0) ==
    /\ h0.pc = "find"
    /\ LET h == [h0 EXCEPT !.calls.find = @ + 1] IN
       \E ok \in BOOLEAN :
          LET r == IF ok THEN FindDone(h, collection) ELSE FindFailed(h) IN
          /\ handlers' = Step(h0, r)
          /\ last' = r.out
    /\ UNCHANGED <<startupVars, collection, nextId, acked>>

\* cursor.All failed: 500, and the handler returns.
AllFailed(h) ==
    [h |-> Idle, out |-> Respond(h, 500, ErrorBody("Failed to decode documents"))]

\* cursor.All succeeded with these documents: 200 and the results.
AllDone(h, docs) ==
    [h |-> Idle, out |-> Respond(h, 200, ResultsJSON(CursorAll(docs)))]

\* cursor.All(ctx, &results): the documents the cursor was opened over,
\* and possibly documents inserted since, which a later batch may bring.
GetAll(h0) ==
    /\ h0.pc = "all"
    /\ LET h == [h0 EXCEPT !.calls.all = @ + 1] IN
       \E ok \in BOOLEAN, later \in SUBSET (collection \ h0.cursor) :
          LET r == IF ok THEN AllDone(h, h.cursor \cup later) ELSE AllFailed(h) IN
          /\ ~ok => later = {}
          /\ handlers' = Step(h0, r)
          /\ last' = r.out
    /\ UNCHANGED <<startupVars, collection, nextId, acked>>

\* A handler that tries the insert again after an error.
InsertRetried(h) ==
    [h |-> h, out |-> NoExchange]

\* collection.InsertOne failed: 500, and the handler returns.
InsertFailed(h) ==
    [h |-> Idle, out |-> Respond(h, 500, ErrorBody("Failed to insert document"))]

\* A handler that answers a successful insert with 200.
InsertDoneOK(h, id) ==
    [h |-> Idle, out |-> Respond(h, 200, CreatedBody(id))]

\* collection.InsertOne succeeded: 201 with the message and the InsertedID.
InsertDone(h, id) ==
    [h |-> Idle, out |-> Respond(h, 201, CreatedBody(id))]

\* collection.InsertOne(ctx, newStudent) within 5 seconds: the call
\* returns the new _id and the document is in the collection, or it
\* returns an error and the collection is as it was.
PostInsert(h0) ==
    /\ h0.pc = "insert"
    /\ LET h == [h0 EXCEPT !.calls.insert = @ + 1]
           doc == Document(h.student, nextId)
       IN  \E ok \in BOOLEAN :
              LET r == IF ok THEN InsertDone(h, nextId) ELSE InsertFailed(h) IN
              /\ collection' = IF ok THEN collection \cup {doc} ELSE collection
              /\ nextId' = IF ok THEN nextId + 1 ELSE nextId
              /\ acked' = IF r.out.status = 201 THEN acked \cup {doc} ELSE acked
              /\ handlers' = Step(h0, r)
              /\ last' = r.out
    /\ UNCHANGED startupVars

-----------------------------------------------------------------------------
(* Startup: main() up to r.Run *)

\* Where main() goes after godotenv.Load returned: src/main.go ends the
\* process on an error, part_000 logs it and goes on.
AfterLoad(v, err) ==
    IF err /\ v = "main" THEN "exited" ELSE "geturi"

\* What main() logs after godotenv.Load returned.
LoadLog(v, err) ==
    IF ~err THEN {}
    ELSE IF v = "main" THEN {"Error loading .env file"}
    ELSE {"No .env file found, using Render environment variables"}

LoadDotenv ==
    /\ last' = NoExchange
    /\ pc = "load"
    /\ env' = IF dotenv.err THEN env ELSE LoadInto(env, dotenv)
    /\ logs' = logs \cup LoadLog(variant, dotenv.err)
    /\ pc' = AfterLoad(variant, dotenv.err)
    /\ UNCHANGED <<variant, dotenv, uri, connected, pinged, listenAddr,
                   collection, nextId, handlers, acked>>

\* uri := os.Getenv("MONGODB_URI"); an empty uri is fatal.
AfterGetURI(u) == IF u = "" THEN "exited" ELSE "connect"

GetURI ==
    /\ last' = NoExchange
    /\ pc = "geturi"
    /\ uri' = Getenv(env, "MONGODB_URI")
    /\ pc' = AfterGetURI(uri')
    /\ logs' = IF pc' = "exited"
               THEN logs \cup {"You must set MONGODB_URI environment variable"}
               ELSE logs
    /\ UNCHANGED <<variant, env, dotenv, connected, pinged, listenAddr,
                   collection, nextId, handlers, acked>>

\* mongo.Connect: an error is fatal.
AfterConnect(ok) == IF ok THEN "ping" ELSE "exited"

Connect ==
    /\ last' = NoExchange
    /\ pc = "connect"
    /\ \E ok \in BOOLEAN :
          /\ connected' = ok
          /\ pc' = AfterConnect(ok)
          /\ logs' = IF ok THEN logs ELSE logs \cup {"MongoDB connection error:"}
    /\ UNCHANGED <<variant, env, dotenv, uri, pinged, listenAddr,
                   collection, nextId, handlers, acked>>

\* A main() that goes on after a failed ping.
AfterPingIgnored(ok) == "run"

\* client.Ping within 15 seconds: an error or the timeout is fatal.
AfterPing(ok) == IF ok THEN "run" ELSE "exited"

Ping ==
    /\ last' = NoExchange
    /\ pc = "ping"
    /\ \E ok \in BOOLEAN :
          /\ pinged' = ok
          /\ pc' = AfterPing(ok)
          /\ logs' = IF ok THEN logs ELSE logs \cup {"MongoDB ping failed:"}
    /\ UNCHANGED <<variant, env, dotenv, uri, connected, listenAddr,
                   collection, nextId, handlers, acked>>

\* The port r.Run is given: src/main.go passes ":8080", part_000 passes
\* PORT, and 8080 when os.Getenv("PORT") is "".
ListenPort(v, e) ==
    IF v = "main" THEN "8080"
    ELSE IF Getenv(e, "PORT") = "" THEN "8080" ELSE Getenv(e, "PORT")

\* r.Run(addr): opens the listener, or returns when the address cannot be
\* bound and main() ends.
Run ==
    /\ last' = NoExchange
    /\ pc = "run"
    /\ \E bound \in BOOLEAN :
          IF bound
          THEN /\ listenAddr' = ":" \o ListenPort(variant, env)
               /\ pc' = "listening"
          ELSE /\ listenAddr' = ""
               /\ pc' = "exited"
    /\ UNCHANGED <<variant, env, dotenv, logs, uri, connected, pinged,
                   collection, nextId, handlers, acked>>

-----------------------------------------------------------------------------
(* Specifications *)

InitOver(vs, es, fs) ==
    /\ variant \in vs
    /\ env \in es
    /\ dotenv \in fs
    /\ pc = "load"
    /\ logs = {}
    /\ uri = ""
    /\ connected = FALSE
    /\ pinged = FALSE
    /\ listenAddr = ""
    /\ collection = {}
    /\ nextId = 1
    /\ handlers = EmptyBag
    /\ last = NoExchange
    /\ acked = {}

Startup == LoadDotenv \/ GetURI \/ Connect \/ Ping \/ Run

NextOver(reqs) ==
    \/ Startup
    \/ \E req \in reqs : Receive(req)
    \/ \E h \in BagToSet(handlers) : GetFind(h)
    \/ \E h \in BagToSet(handlers) : GetAll(h)
    \/ \E h \in BagToSet(handlers) : PostInsert(h)

Methods == {"GET", "POST", "PUT", "OPTIONS"}
Origins == {"", LocalOrigin, RenderOrigin, OtherOrigin, SameOrigin}

\* The requests with these methods, paths, Origin headers and bodies; a
\* body comes with a POST only.
RequestsOver(ms, ps, os, bs) ==
    { Request(m, p, o, NoBody) : m \in ms \ {"POST"}, p \in ps, o \in os }
        \cup { Request(m, p, o, b) : m \in ms \cap {"POST"}, p \in ps, o \in os, b \in bs }

\* The whole service under requests without Origin, with every body; the
\* environment is one that lets both variants start.
ServeEnv == [PORT |-> Val("3000"), MONGODB_URI |-> Val("mongodb://db")]

ServeRequests == RequestsOver({"GET", "POST"}, {"/students"}, {""}, Bodies)

Init == InitOver(Variants, {ServeEnv}, {EmptyFile})
Next == NextOver(ServeRequests)
Spec == Init /\ [][Next]_vars

\* Startup under every environment and .env file, with one request of
\* each route.
StartupRequests == RequestsOver({"GET", "POST"}, {"/students"}, {""}, {BodyAda})

InitStartup == InitOver(Variants, Envs, Files)
NextStartup == NextOver(StartupRequests)
SpecStartup == InitStartup /\ [][NextStartup]_vars

\* The middleware under every method and Origin on /students, and an
\* allowed and another Origin on a path without route.
CorsRequests ==
    RequestsOver(Methods, {"/students"}, Origins, {BodyAda})
        \cup RequestsOver({"GET"}, {"/teachers"}, {LocalOrigin, OtherOrigin}, {BodyAda})

NextCors == NextOver(CorsRequests)
SpecCors == Init /\ [][NextCors]_vars

-----------------------------------------------------------------------------
(* Properties of startup, checked under SpecStartup *)

\* The listener is open, or a request has been taken.
Accepting ==
    listenAddr # "" \/ handlers # EmptyBag \/ last # NoExchange \/ collection # {}

\* C3: the listener is opened, and requests are taken, only after
\* MONGODB_URI was found non-empty, the client was constructed and the
\* ping succeeded; a process that exited has never opened the listener.
C3_ListenOnlyAfterPing ==
    /\ Accepting =>
          /\ pc = "listening"
          /\ listenAddr # ""
          /\ uri # "" /\ Getenv(env, "MONGODB_URI") # ""
          /\ connected /\ pinged
    /\ pc = "exited" => ~Accepting

\* C3 witness: the ping failed and the process ended without a listener.
C3_Witness ==
    pc = "exited" /\ uri # "" /\ connected /\ ~pinged /\ listenAddr = ""

\* C4, as the claim states it: when the .env file cannot be loaded and
\* MONGODB_URI is set in the process environment, startup goes on, so the
\* process can only end after main() has read the URI.
C4_DotenvFailureNotFatal ==
    (dotenv.err /\ Getenv(env, "MONGODB_URI") # "" /\ pc = "exited") => uri # ""

\* C5, as the claim states it: the service listens on PORT when PORT is
\* set and non-empty, and on 8080 otherwise.
C5_ListensOnPORT ==
    pc = "listening" =>
        listenAddr = ":" \o (IF env.PORT.set /\ env.PORT.val # ""
                             THEN env.PORT.val ELSE "8080")

-----------------------------------------------------------------------------
(* Properties of the middleware, checked under SpecCors *)

\* C9: a response carries Access-Control-Allow-Origin or
\* Access-Control-Allow-Credentials only when the request's Origin is in
\* the variant's allow-list, whatever the method and path; a request from
\* an allow-listed origin gets both, with its own origin.
C9_CorsHeadersOnlyForAllowed ==
    /\ last # NoExchange =>
          IF last.req.origin \in AllowOrigins(variant)
          THEN last.acao = last.req.origin /\ last.acac
          ELSE last.acao = "" /\ ~last.acac
    /\ \A h \in BagToSet(handlers) :
          (h.acao # "" \/ h.acac) => h.req.origin \in AllowOrigins(variant)

\* C9 witness: src/main.go answers a request from the Render origin,
\* which only part_000 allows, without the headers.
C9_Witness ==
    /\ variant = "main"
    /\ last.req.origin = RenderOrigin
    /\ last.status = 403
    /\ last.acao = ""

-----------------------------------------------------------------------------
(* Properties of the handlers, checked under Spec *)

\* The request reached the POST handler.
Created(x) == Route(x.req) = "create" /\ ~Cors(variant, x.req).abort

\* The request reached the GET handler.
Listed(x) == Route(x.req) = "list" /\ ~Cors(variant, x.req).abort

\* A body that is JSON with a string name and an integer age that fits
\* Go's int.
IsStudentBody(b) ==
    /\ b.wf
    /\ b.name.k = "string"
    /\ b.age.k = "number" /\ ~b.age.frac /\ ~b.age.huge

\* The documents that had been answered 201 when the request of exchange
\* x arrived.
AckedBefore(x) == x.stored \cap acked

\* Some document of docs has the name and age of d.
HasStudent(docs, d) == \E r \in docs : r.name = d.name /\ r.age = d.age

\* C1, as the claim states it: every body with a string name and an
\* integer age is answered 201 with the message and the insertedID, and
\* every later GET /students is answered 200 with an array holding such a
\* document.
C1_ValidBodyAlways201 ==
    /\ (Created(last) /\ IsStudentBody(last.req.body)) =>
          /\ last.status = 201
          /\ last.body.kind = "created"
    /\ (Listed(last) /\ AckedBefore(last) # {}) =>
          /\ last.status = 200
          /\ \A d \in AckedBefore(last) : HasStudent(last.body.docs, d)

\* C1, amended: such a body is answered 201 with the message and the
\* insertedID of a stored document with that name and age, or 500
\* "Failed to insert document" when the insert fails; every later GET
\* /students that is answered 200 holds a document with that name and age.
C1_ValidBody201Or500 ==
    /\ (Created(last) /\ IsStudentBody(last.req.body)) =>
          \/ /\ last.status = 201
             /\ last.body.kind = "created"
             /\ last.body.message = "Student added successfully!"
             /\ [_id |-> last.body.insertedID, name |-> last.req.body.name.s,
                 age |-> last.req.body.age.n] \in collection \cap acked
          \/ /\ last.status = 500
             /\ last.body = ErrorBody("Failed to insert document")
    /\ (Listed(last) /\ last.status = 200) =>
          \A d \in AckedBefore(last) : HasStudent(last.body.docs, d)

\* C1 witness: a GET answered 200 after a valid body was answered 201.
C1_Witness ==
    /\ Listed(last) /\ last.status = 200
    /\ \E d \in AckedBefore(last) : d.name = "Ada" /\ d.age = 30
    /\ HasStudent(last.body.docs, [name |-> "Ada", age |-> 30])

\* A body that lacks name, lacks age, or whose age is not an integer.
LacksOrBadAge(b) ==
    b.wf /\ (b.name.k = "absent" \/ b.age.k = "absent" \/ b.age.k = "string" \/ b.age.frac)

\* C2, as the claim states it: a body that lacks name, lacks age or has a
\* non-integer age is answered 400 with the binder's error text, and the
\* handler never goes on to the insert.
C2_MissingFieldIs400 ==
    /\ (Created(last) /\ LacksOrBadAge(last.req.body)) =>
          last.status = 400 /\ last.body.kind = "error" /\ last.body.error # ""
    /\ \A h \in BagToSet(handlers) : h.pc = "insert" => ~LacksOrBadAge(h.req.body)

\* C6, as the claim states it: GET /students on a collection that holds
\* no documents is answered 200 with an array of length 0.
C6_EmptyListIsArray ==
    (Listed(last) /\ last.status = 200 /\ collection = {}) =>
        last.body.kind = "array" /\ last.body.docs = {}

\* C7: a GET /students answered 200 returns every document that had been
\* answered 201 when it arrived, so at least that many, and every document
\* the collection held then.
C7_ListHoldsEveryAcked ==
    (Listed(last) /\ last.status = 200) =>
        /\ AckedBefore(last) \subseteq last.body.docs
        /\ Cardinality(last.body.docs) >= Cardinality(AckedBefore(last))
        /\ last.stored \subseteq last.body.docs

\* C7 witness: two inserts were answered 201 before a GET arrived, and
\* the GET is answered while another handler is in flight.
C7_Witness ==
    /\ Listed(last) /\ last.status = 200
    /\ Cardinality(AckedBefore(last)) >= 2
    /\ handlers # EmptyBag

\* The database calls a handler makes.
AtMostOnce(calls) == calls.find <= 1 /\ calls.all <= 1 /\ calls.insert <= 1

\* C8: a failed find, cursor.All or insert is answered 500 with its
\* message after that one call, nothing is called twice, and a handler
\* writes one response.
C8_FailuresAreTerminal ==
    /\ \A h \in BagToSet(handlers) : AtMostOnce(h.calls)
    /\ last # NoExchange => last.writes = 1 /\ AtMostOnce(last.calls)
    /\ last.status = 500 =>
          \/ /\ last.body = ErrorBody("Failed to fetch documents")
             /\ last.calls = [find |-> 1, all |-> 0, insert |-> 0]
          \/ /\ last.body = ErrorBody("Failed to decode documents")
             /\ last.calls = [find |-> 1, all |-> 1, insert |-> 0]
          \/ /\ last.body = ErrorBody("Failed to insert document")
             /\ last.calls = [find |-> 0, all |-> 0, insert |-> 1]
    /\ (Created(last) /\ last.status = 201) => last.calls.insert = 1
    /\ (Listed(last) /\ last.status = 200) => last.calls.find = 1 /\ last.calls.all = 1

\* C8 witness: an insert failed and was answered 500.
C8_Witness ==
    last.status = 500 /\ last.body.error = "Failed to insert document"

\* C10: every stored document has the fields name, age and _id and no
\* other, and its _id is one the insert assigned.
C10_StoredFields ==
    /\ \A d \in collection :
          /\ DOMAIN d = {"_id", "name", "age"}
          /\ d._id >= 1 /\ d._id < nextId
    /\ Cardinality({d._id : d \in collection}) = Cardinality(collection)

\* C10 witness: a body with a member grade and an _id of the client's was
\* stored.
C10_Witness ==
    /\ last.status = 201
    /\ last.req.body.grade.k = "string" /\ last.req.body.id.k = "string"
    /\ \E d \in collection : d._id = last.body.insertedID /\ d.name = last.req.body.name.s

====
